---- MODULE Spec2Model ----
(***************************************************************************)
(* Model of the plotting scripts of fluent10g-paper-fpl2018.               *)
(*                                                                         *)
(* The scripts are Python 2 programs (len(filter(...)), eager map).  Their *)
(* numbers are Python floats, i.e. IEEE-754 binary64 values.  The model    *)
(* keeps that arithmetic: a float is a record [s, m, e] standing for       *)
(* s * m * 2^e with a 53 bit significand m, and every operation is the     *)
(* exact result rounded to nearest, ties to even.  Significands do not fit *)
(* TLC's integers, so they are little-endian sequences of 15 bit limbs.    *)
(* Infinities, NaN, subnormals and the sign of zero are outside the value  *)
(* ranges the model draws its inputs from and are not represented.         *)
(***************************************************************************)
EXTENDS Integers, Sequences, FiniteSets, TLC

(***************************************************************************)
(* Natural numbers of arbitrary size                                       *)
(***************************************************************************)
Base == 2^15

Pow2(n) == 2^n

Abs(n) == IF n < 0 THEN -n ELSE n

Min2(a, b) == IF a <= b THEN a ELSE b

RECURSIVE BTrim(_)
BTrim(a) ==
    IF a = <<>> THEN a
    ELSE IF a[Len(a)] = 0 THEN BTrim(SubSeq(a, 1, Len(a) - 1)) ELSE a

RECURSIVE BFromNat(_)
BFromNat(n) == IF n = 0 THEN <<>> ELSE <<n % Base>> \o BFromNat(n \div Base)

RECURSIVE BToNat(_)
BToNat(a) == IF a = <<>> THEN 0 ELSE Head(a) + Base * BToNat(Tail(a))

Limb(a, j) == IF j <= Len(a) THEN a[j] ELSE 0

RECURSIVE BAddC(_, _, _, _)
BAddC(a, b, j, cy) ==
    IF j > Len(a) /\ j > Len(b)
    THEN (IF cy = 0 THEN <<>> ELSE <<cy>>)
    ELSE LET t == Limb(a, j) + Limb(b, j) + cy
         IN  <<t % Base>> \o BAddC(a, b, j + 1, t \div Base)

BAdd(a, b) == BAddC(a, b, 1, 0)

\* a - b for a >= b
RECURSIVE BSubC(_, _, _, _)
BSubC(a, b, j, bw) ==
    IF j > Len(a) THEN <<>>
    ELSE LET t == Limb(a, j) - Limb(b, j) - bw
         IN  IF t < 0 THEN <<t + Base>> \o BSubC(a, b, j + 1, 1)
                      ELSE <<t>> \o BSubC(a, b, j + 1, 0)

BSub(a, b) == BTrim(BSubC(a, b, 1, 0))

RECURSIVE BCmpAt(_, _, _)
BCmpAt(a, b, j) ==
    IF j = 0 THEN 0
    ELSE IF a[j] < b[j] THEN -1
    ELSE IF a[j] > b[j] THEN 1
    ELSE BCmpAt(a, b, j - 1)

\* -1, 0, 1 as a < b, a = b, a > b
BCmp(a, b) ==
    IF Len(a) < Len(b) THEN -1
    ELSE IF Len(a) > Len(b) THEN 1
    ELSE BCmpAt(a, b, Len(a))

RECURSIVE BMulSmallC(_, _, _, _)
BMulSmallC(a, k, j, cy) ==
    IF j > Len(a) THEN (IF cy = 0 THEN <<>> ELSE <<cy>>)
    ELSE LET t == a[j] * k + cy
         IN  <<t % Base>> \o BMulSmallC(a, k, j + 1, t \div Base)

\* a * k for 0 <= k < Base
BMulSmall(a, k) == IF k = 0 THEN <<>> ELSE BMulSmallC(a, k, 1, 0)

BShiftLimbs(a, n) == IF a = <<>> THEN a ELSE [j \in 1..n |-> 0] \o a

RECURSIVE BMulAt(_, _, _)
BMulAt(a, b, j) ==
    IF j > Len(b) THEN <<>>
    ELSE BAdd(BShiftLimbs(BMulSmall(a, b[j]), j - 1), BMulAt(a, b, j + 1))

BMul(a, b) == BMulAt(a, b, 1)

\* a * 2^n
BShl(a, n) == BShiftLimbs(BMulSmall(a, Pow2(n % 15)), n \div 15)

\* floor(a / 2^n)
BShr(a, n) ==
    LET d == n \div 15
        r == n % 15
        h == IF d >= Len(a) THEN <<>> ELSE SubSeq(a, d + 1, Len(a))
    IN  BTrim([j \in 1..Len(h) |->
                 (h[j] \div Pow2(r)) + (Limb(h, j + 1) % Pow2(r)) * Pow2(15 - r)])

RECURSIVE NatBitLen(_)
NatBitLen(n) == IF n = 0 THEN 0 ELSE 1 + NatBitLen(n \div 2)

BBitLen(a) == IF a = <<>> THEN 0 ELSE 15 * (Len(a) - 1) + NatBitLen(a[Len(a)])

\* bit j (from 0) of a
BBit(a, j) == (Limb(a, (j \div 15) + 1) \div Pow2(j % 15)) % 2

BIsOdd(a) == a # <<>> /\ a[1] % 2 = 1

BOne == <<1>>

\* The largest k <= est with d * k <= r; est is at most 2 above it
RECURSIVE BFitDigit(_, _, _)
BFitDigit(d, r, est) ==
    IF BCmp(BMulSmall(d, est), r) <= 0 THEN est ELSE BFitDigit(d, r, est - 1)

\* Long division by limbs, most significant limb of n first.  d has its top
\* limb >= Base / 2, so the digit estimated from the top limbs is at most 2
\* too large.  q and r are the quotient and remainder of the limbs above j.
RECURSIVE BDivStep(_, _, _, _, _)
BDivStep(n, d, j, q, r) ==
    IF j = 0 THEN [q |-> BTrim(q), r |-> r]
    ELSE LET r2  == BTrim(<<n[j]>> \o r)
             L   == Len(d)
             top == Limb(r2, L + 1) * Base + Limb(r2, L)
             est == Min2(Base - 1, top \div d[L])
             dig == IF Len(r2) < L THEN 0 ELSE BFitDigit(d, r2, est)
             r3  == BSub(r2, BMulSmall(d, dig))
         IN  IF Len(r3) >= 0 THEN BDivStep(n, d, j - 1, <<dig>> \o q, r3)
             ELSE [q |-> q, r |-> r]

\* [q, r] with q = floor(n / d) and r = <<>> iff d divides n
BDivMod(n, d) ==
    LET sh == 15 - NatBitLen(d[Len(d)])
        n2 == BShl(n, sh)
    IN  BDivStep(n2, BShl(d, sh), Len(n2), <<>>, <<>>)

RECURSIVE BPow10(_)
BPow10(k) == IF k = 0 THEN BOne ELSE BMulSmall(BPow10(k - 1), 10)

(***************************************************************************)
(* Python floats: binary64, round to nearest, ties to even                 *)
(***************************************************************************)
FZero == [s |-> 0, m |-> <<>>, e |-> 0]

Sign(n) == IF n < 0 THEN -1 ELSE IF n > 0 THEN 1 ELSE 0

\* The float nearest to s * (n + f) * 2^e, where 0 <= f < 1 and f > 0 iff
\* sticky.  With sticky set n has more than 54 bits.
RoundInt(s, n, sticky, e) ==
    LET bl == BBitLen(n)
    IN  IF n = <<>> \/ s = 0 THEN FZero
        ELSE IF bl <= 53 THEN [s |-> s, m |-> BShl(n, 53 - bl), e |-> e - (53 - bl)]
        ELSE LET drop == bl - 53
                 mant == BShr(n, drop)
                 low  == BSub(n, BShl(mant, drop))
                 cmp  == BCmp(low, BShl(BOne, drop - 1))
                 up   == cmp > 0 \/ (cmp = 0 /\ (sticky \/ BIsOdd(mant)))
                 m1   == IF up THEN BAdd(mant, BOne) ELSE mant
             IN  IF BBitLen(m1) > 53
                 THEN [s |-> s, m |-> BShr(m1, 1), e |-> e + drop + 1]
                 ELSE [s |-> s, m |-> m1, e |-> e + drop]

\* The float nearest to s * (num / den) * 2^e
RoundRat(s, num, den, e) ==
    IF num = <<>> \/ s = 0 THEN FZero
    ELSE LET k  == 55 - (BBitLen(num) - BBitLen(den))
             n2 == IF k >= 0 THEN BShl(num, k) ELSE num
             d2 == IF k >= 0 THEN den ELSE BShl(den, -k)
             qr == BDivMod(n2, d2)
         IN  RoundInt(s, qr.q, qr.r # <<>>, e - k)

\* float(n) of an int n
IntToF(n) == RoundInt(Sign(n), BFromNat(Abs(n)), FALSE, 0)

\* float("<d>e-<k>"): the float nearest to the decimal d * 10^-k
FromDec(d, k) ==
    IF k >= 0 THEN RoundRat(Sign(d), BFromNat(Abs(d)), BPow10(k), 0)
    ELSE RoundInt(Sign(d), BMul(BFromNat(Abs(d)), BPow10(-k)), FALSE, 0)

FNeg(a) == [a EXCEPT !.s = -a.s]

FMul(a, b) == RoundInt(a.s * b.s, BMul(a.m, b.m), FALSE, a.e + b.e)

FDiv(a, b) == RoundRat(a.s * b.s, a.m, b.m, a.e - b.e)

FAdd(a, b) ==
    IF a.s = 0 THEN b
    ELSE IF b.s = 0 THEN a
    ELSE LET e  == Min2(a.e, b.e)
             x  == BShl(a.m, a.e - e)
             y  == BShl(b.m, b.e - e)
             xy == BCmp(x, y)
         IN  IF a.s = b.s THEN RoundInt(a.s, BAdd(x, y), FALSE, e)
             ELSE IF xy = 0 THEN FZero
             ELSE IF xy > 0 THEN RoundInt(a.s, BSub(x, y), FALSE, e)
             ELSE RoundInt(b.s, BSub(y, x), FALSE, e)

FSub(a, b) == FAdd(a, FNeg(b))

\* -1, 0, 1 as a < b, a = b, a > b (significands are normalised to 53 bits)
FCmp(a, b) ==
    IF a.s # b.s THEN (IF a.s < b.s THEN -1 ELSE 1)
    ELSE IF a.s = 0 THEN 0
    ELSE IF a.e # b.e THEN (IF a.e < b.e THEN -a.s ELSE a.s)
    ELSE a.s * BCmp(a.m, b.m)

FLt(a, b) == FCmp(a, b) < 0

FLe(a, b) == FCmp(a, b) <= 0

\* integer part of |a| and whether |a| has a fractional part
FIntPart(a) == IF a.e >= 0 THEN BShl(a.m, a.e) ELSE BShr(a.m, -a.e)

FHasFrac(a) == a.e < 0 /\ BShl(BShr(a.m, -a.e), -a.e) # a.m

\* math.floor(a), math.ceil(a) as integers
FFloor(a) ==
    LET q == BToNat(FIntPart(a))
    IN  IF a.s >= 0 THEN q ELSE IF FHasFrac(a) THEN -(q + 1) ELSE -q

FCeil(a) ==
    LET q == BToNat(FIntPart(a))
    IN  IF a.s <= 0 THEN -q ELSE IF FHasFrac(a) THEN q + 1 ELSE q

\* Python 2 round(a): nearest integer, halves away from zero
FRound(a) ==
    LET q  == BToNat(FIntPart(a))
        up == a.e < 0 /\ BBit(a.m, -a.e - 1) = 1
    IN  a.s * (IF up THEN q + 1 ELSE q)

\* Python 2 round(a, 1): the float nearest to the decimal with one digit
\* after the point nearest to a, halves away from zero
FRound1(a) ==
    LET t   == [s |-> a.s, m |-> BMulSmall(a.m, 10), e |-> a.e]
        q   == FIntPart(t)
        up  == t.e < 0 /\ BBit(t.m, -t.e - 1) = 1
        d   == IF up THEN BAdd(q, BOne) ELSE q
    IN  RoundRat(a.s, d, BFromNat(10), 0)

(***************************************************************************)
(* Bounds of the model and the inputs it draws                             *)
(***************************************************************************)
\* most lines in an input file
MaxLines == 3

\* most raw timestamp the quantizer is applied to on its own
MaxRaw == 60

\* lines of timestamp_diffs_expected.dat: the decimal "<d>e-10" (seconds)
ExpectedLines == {0, 10}

\* lines of timestamp_diffs_measured.dat: an integer (nanoseconds)
MeasuredLines == {0, 3, 4, 10}

\* most files in the data directory of plot_accuracy_random
MaxFiles == 2

\* entries of that directory: "histogram_<d>e9.dat", or 0 for any other name
DirEntries == {0, 1, 10}

\* most lines in a histogram file
MaxBins == 2

\* lines of a histogram file: the fields "<l>e-1" (latency) and "<n>"
HistLines == {64, 128} \X {0, 1}

\* lines of max_throughput.dat: the fields "<p>", "<t>e9" and "<b>e9"
ThroughputLines == {64, 128} \X {1, 2} \X {3, 4}

\* lines of required_membandwidth.dat: the fields "<p>" and "<b>e9"
BandwidthLines == {64, 128} \X {3, 4}

SeqsUpTo(S, n) == UNION {[1..k -> S] : k \in 0..n}

RECURSIVE SumSeq(_)
SumSeq(q) == IF q = <<>> THEN 0 ELSE Head(q) + SumSeq(Tail(q))

(***************************************************************************)
(* plot_precision/plot.py                                                  *)
(***************************************************************************)
T_CLK_NIC == FromDec(32, 1)

F1e9 == IntToF(10^9)

F100 == IntToF(100)

\* float(line) * 1e9
ParseExpected(line) == FMul(FromDec(line, 10), F1e9)

\* the two lines below with floor() for the inner round()
QuantizeDown(t) ==
    FRound1(FMul(IntToF(FFloor(FDiv(t, T_CLK_NIC))), T_CLK_NIC))

\* timestamp /= T_CLK_NIC; timestamp = round(round(timestamp)*T_CLK_NIC, 1)
QuantizeF(t) ==
    FRound1(FMul(IntToF(FRound(FDiv(t, T_CLK_NIC))), T_CLK_NIC))

\* timestamp = int(line), then the two lines above
Quantize(line) == QuantizeF(IntToF(line))

RECURSIVE FMinSeq(_)
FMinSeq(q) ==
    IF Len(q) = 1 THEN q[1]
    ELSE LET r == FMinSeq(Tail(q)) IN IF FLt(r, q[1]) THEN r ELSE q[1]

RECURSIVE FMaxSeq(_)
FMaxSeq(q) ==
    IF Len(q) = 1 THEN q[1]
    ELSE LET r == FMaxSeq(Tail(q)) IN IF FLt(q[1], r) THEN r ELSE q[1]

\* len(filter(lambda x: c <= x < c + T_CLK_NIC, tErrorList))
CountIn(lo, list) ==
    LET hi == FAdd(lo, T_CLK_NIC)
    IN  Cardinality({j \in DOMAIN list : FLe(lo, list[j]) /\ FLt(list[j], hi)})

VARIABLES
    script,          \* the script that is run
    pc,              \* the statement main() is at
    error,           \* the exception that ended the run, "" if none
    stdout,          \* the diagnostics printed
    chart,           \* the series handed to matplotlib, <<>> before that
    \* plot_precision
    existsExpected,  \* os.path.isfile(fnameExpected)
    existsMeasured,  \* os.path.isfile(fnameMeasured)
    fExpected,       \* the lines read from fnameExpected
    fMeasured,       \* the lines read from fnameMeasured
    tExpectedList, tMeasuredList, tErrorList,
    start, end, c, errors, occurences,
    probabilities,   \* also plot_accuracy_random
    \* plot_throughput_generate_capture, plot_required_mem_bandwidth_generate_capture
    existsInput,     \* os.path.isfile(fname)
    fLines,          \* the lines read from fname, split into fields
    pktlens, networkThroughputs, memoryBandwidths,
    \* plot_accuracy_random
    dirListing,      \* os.listdir(dataDir)
    histfiles, i, latencies, occurrences, latency_min, latency_max,
    \* the quantizer on its own
    timestamp, once, twice

outVars   == <<error, stdout, chart>>
filesVars == <<existsExpected, existsMeasured>>
readVars  == <<fExpected, fMeasured, tExpectedList, tMeasuredList>>
binVars   == <<start, end, c, errors, occurences>>
precVars  == <<filesVars, readVars, tErrorList, binVars>>
sortVars  == <<existsInput, fLines, pktlens, networkThroughputs, memoryBandwidths>>
accVars   == <<dirListing, histfiles, i, latencies, occurrences, latency_min,
               latency_max>>
quantVars == <<timestamp, once, twice>>

vars == <<script, pc, outVars, precVars, probabilities, sortVars, accVars,
          quantVars>>

Raise(e) == pc' = "fail" /\ error' = e

NoData == "No measurement data has been found."

NoInput == "Input file 'max_throughput.dat' does not exist."

NoBandwidth == "No data has been found."

\* the state all scripts start in, but for the files they will find
Blank ==
    /\ pc = "main"
    /\ error = ""
    /\ stdout = <<>>
    /\ chart = <<>>
    /\ fExpected = <<>>
    /\ fMeasured = <<>>
    /\ tExpectedList = <<>>
    /\ tMeasuredList = <<>>
    /\ tErrorList = <<>>
    /\ start = FZero
    /\ end = FZero
    /\ c = FZero
    /\ errors = <<>>
    /\ occurences = <<>>
    /\ probabilities = <<>>
    /\ fLines = <<>>
    /\ pktlens = <<>>
    /\ networkThroughputs = <<>>
    /\ memoryBandwidths = <<>>
    /\ histfiles = <<>>
    /\ i = 0
    /\ latencies = <<>>
    /\ occurrences = <<>>
    /\ latency_min = FZero
    /\ latency_max = FZero
    /\ once = FZero
    /\ twice = FZero

Init ==
    /\ Blank
    /\ timestamp = 0
    /\ \/ /\ script = "precision"
          /\ existsExpected \in BOOLEAN
          /\ existsMeasured \in BOOLEAN
          /\ existsInput = FALSE
          /\ dirListing = <<>>
       \/ /\ script \in {"throughput", "membandwidth"}
          /\ existsInput \in BOOLEAN
          /\ existsExpected = FALSE
          /\ existsMeasured = FALSE
          /\ dirListing = <<>>
       \/ /\ script = "accuracy"
          /\ dirListing \in {l \in SeqsUpTo(DirEntries, MaxFiles) :
                \A a, b \in DOMAIN l : l[a] = l[b] => a = b \/ l[a] = 0}
          /\ existsInput = FALSE
          /\ existsExpected = FALSE
          /\ existsMeasured = FALSE

\* lines 53-59 with "and" for "or": only the absence of both files is caught
CheckFilesBothMissing ==
    /\ script = "precision" /\ pc = "main"
    /\ IF existsExpected = FALSE /\ existsMeasured = FALSE
       THEN /\ stdout' = Append(stdout, NoData)
            /\ pc' = "return"
       ELSE /\ pc' = "readExpected"
            /\ UNCHANGED stdout
    /\ UNCHANGED <<script, error, chart, precVars, probabilities, sortVars,
                   accVars, quantVars>>

\* lines 53-59
CheckFiles ==
    /\ script = "precision" /\ pc = "main"
    /\ IF existsExpected = FALSE \/ existsMeasured = FALSE
       THEN /\ stdout' = Append(stdout, NoData)
            /\ pc' = "return"
       ELSE /\ pc' = "readExpected"
            /\ UNCHANGED stdout
    /\ UNCHANGED <<script, error, chart, precVars, probabilities, sortVars,
                   accVars, quantVars>>

\* lines 65-67
ReadExpected ==
    /\ script = "precision" /\ pc = "readExpected"
    /\ IF existsExpected
       THEN \E lines \in SeqsUpTo(ExpectedLines, MaxLines) :
              /\ fExpected' = lines
              /\ tExpectedList' = [k \in DOMAIN lines |-> ParseExpected(lines[k])]
              /\ pc' = "readMeasured"
              /\ UNCHANGED error
       ELSE /\ Raise("IOError")
            /\ UNCHANGED <<fExpected, tExpectedList>>
    /\ UNCHANGED <<script, stdout, chart, filesVars, fMeasured, tMeasuredList,
                   tErrorList, binVars, probabilities, sortVars, accVars,
                   quantVars>>

\* lines 70-76
ReadMeasured ==
    /\ script = "precision" /\ pc = "readMeasured"
    /\ IF existsMeasured
       THEN \E lines \in SeqsUpTo(MeasuredLines, MaxLines) :
              /\ fMeasured' = lines
              /\ tMeasuredList' = [k \in DOMAIN lines |-> Quantize(lines[k])]
              /\ pc' = "assertLen"
              /\ UNCHANGED error
       ELSE /\ Raise("IOError")
            /\ UNCHANGED <<fMeasured, tMeasuredList>>
    /\ UNCHANGED <<script, stdout, chart, filesVars, fExpected, tExpectedList,
                   tErrorList, binVars, probabilities, sortVars, accVars,
                   quantVars>>

\* line 79 left out
AssertLenSkipped ==
    /\ script = "precision" /\ pc = "assertLen"
    /\ pc' = "errors"
    /\ UNCHANGED <<script, outVars, precVars, probabilities, sortVars,
                   accVars, quantVars>>

\* line 79
AssertLen ==
    /\ script = "precision" /\ pc = "assertLen"
    /\ IF Len(tExpectedList) = Len(tMeasuredList)
       THEN pc' = "errors" /\ UNCHANGED error
       ELSE Raise("AssertionError")
    /\ UNCHANGED <<script, stdout, chart, precVars, probabilities, sortVars,
                   accVars, quantVars>>

\* lines 82-83
ComputeErrors ==
    /\ script = "precision" /\ pc = "errors"
    /\ IF Len(tExpectedList) <= Len(tMeasuredList)
       THEN /\ tErrorList' = [k \in DOMAIN tExpectedList |->
                                FSub(tMeasuredList[k], tExpectedList[k])]
            /\ pc' = "range"
            /\ UNCHANGED error
       ELSE /\ Raise("IndexError")
            /\ UNCHANGED tErrorList
    /\ UNCHANGED <<script, stdout, chart, filesVars, readVars, binVars,
                   probabilities, sortVars, accVars, quantVars>>

\* lines 87-93
ComputeRange ==
    /\ script = "precision" /\ pc = "range"
    /\ IF tErrorList = <<>>
       THEN /\ Raise("ValueError")
            /\ UNCHANGED <<start, end, c>>
       ELSE LET lo == FMul(T_CLK_NIC,
                           IntToF(FFloor(FDiv(FMinSeq(tErrorList), T_CLK_NIC))))
                hi == FMul(T_CLK_NIC,
                           IntToF(FCeil(FDiv(FMaxSeq(tErrorList), T_CLK_NIC))))
            IN  /\ start' = lo
                /\ end' = hi
                /\ c' = lo
                /\ pc' = "loop"
                /\ UNCHANGED error
    /\ UNCHANGED <<script, stdout, chart, filesVars, readVars, tErrorList,
                   errors, occurences, probabilities, sortVars, accVars,
                   quantVars>>

\* lines 94-98, one pass of the loop body
BinStep ==
    /\ script = "precision" /\ pc = "loop"
    /\ FLt(c, end)
    /\ errors' = Append(errors, FRound1(c))
    /\ occurences' = Append(occurences, CountIn(c, tErrorList))
    /\ c' = FAdd(c, T_CLK_NIC)
    /\ UNCHANGED <<script, pc, outVars, filesVars, readVars, tErrorList, start,
                   end, probabilities, sortVars, accVars, quantVars>>

\* line 94, the loop condition fails
BinExit ==
    /\ script = "precision" /\ pc = "loop"
    /\ ~FLt(c, end)
    /\ pc' = "assertSum"
    /\ UNCHANGED <<script, outVars, precVars, probabilities, sortVars, accVars,
                   quantVars>>

\* line 100
AssertSum ==
    /\ script = "precision" /\ pc = "assertSum"
    /\ IF SumSeq(occurences) = Len(tErrorList)
       THEN pc' = "normalize" /\ UNCHANGED error
       ELSE Raise("AssertionError")
    /\ UNCHANGED <<script, stdout, chart, precVars, probabilities, sortVars,
                   accVars, quantVars>>

\* line 103 with the number of bins for the number of samples
NormalizeByBins ==
    /\ script = "precision" /\ pc = "normalize"
    /\ probabilities' = [k \in DOMAIN occurences |->
          FDiv(FMul(F100, IntToF(occurences[k])), IntToF(Len(occurences)))]
    /\ pc' = "plot"
    /\ UNCHANGED <<script, outVars, precVars, sortVars, accVars, quantVars>>

\* line 103
Normalize ==
    /\ script = "precision" /\ pc = "normalize"
    /\ probabilities' = [k \in DOMAIN occurences |->
          FDiv(FMul(F100, IntToF(occurences[k])), IntToF(Len(tErrorList)))]
    /\ pc' = "plot"
    /\ UNCHANGED <<script, outVars, precVars, sortVars, accVars, quantVars>>

\* lines 106-116
Plot ==
    /\ script = "precision" /\ pc = "plot"
    /\ chart' = [x |-> errors, y |-> probabilities, width |-> T_CLK_NIC]
    /\ pc' = "done"
    /\ UNCHANGED <<script, error, stdout, precVars, probabilities, sortVars,
                   accVars, quantVars>>

(***************************************************************************)
(* plot_throughput_generate_capture/plot.py and                            *)
(* plot_required_mem_bandwidth_generate_capture/plot.py                    *)
(***************************************************************************)
\* zip(a, b)
Zip(a, b) == [k \in 1..Min2(Len(a), Len(b)) |-> <<a[k], b[k]>>]

\* the order of tuples (int, float)
PairLe(x, y) == x[1] < y[1] \/ (x[1] = y[1] /\ FLe(x[2], y[2]))

RECURSIVE InsertPair(_, _)
InsertPair(x, q) ==
    IF q = <<>> THEN <<x>>
    ELSE IF PairLe(x, Head(q)) THEN <<x>> \o q
    ELSE <<Head(q)>> \o InsertPair(x, Tail(q))

\* sorted(q) for a list of tuples
RECURSIVE Sorted(_)
Sorted(q) == IF q = <<>> THEN q ELSE InsertPair(Head(q), Sorted(Tail(q)))

\* x/1e9 over a list
ToGbps(q) == [k \in DOMAIN q |-> FDiv(q[k], F1e9)]

\* lines 49-54 (throughput), 49-54 (required memory bandwidth)
SortCheckFile ==
    /\ script \in {"throughput", "membandwidth"} /\ pc = "main"
    /\ IF ~existsInput
       THEN /\ stdout' = Append(stdout, IF script = "throughput"
                                         THEN NoInput ELSE NoBandwidth)
            /\ pc' = "return"
       ELSE /\ pc' = "read"
            /\ UNCHANGED stdout
    /\ UNCHANGED <<script, error, chart, precVars, probabilities, sortVars,
                   accVars, quantVars>>

\* throughput lines 61-71
ThroughputRead ==
    /\ script = "throughput" /\ pc = "read"
    /\ \E lines \in SeqsUpTo(ThroughputLines, MaxLines) :
         /\ fLines' = lines
         /\ pktlens' = [k \in DOMAIN lines |-> lines[k][1]]
         /\ networkThroughputs' = [k \in DOMAIN lines |-> FromDec(lines[k][2], -9)]
         /\ memoryBandwidths' = [k \in DOMAIN lines |-> FromDec(lines[k][3], -9)]
    /\ pc' = "sort1"
    /\ UNCHANGED <<script, outVars, precVars, probabilities, existsInput,
                   accVars, quantVars>>

\* throughput lines 74-76
ThroughputSort1 ==
    /\ script = "throughput" /\ pc = "sort1"
    /\ LET z == Sorted(Zip(pktlens, networkThroughputs))
       IN  IF z = <<>>
           THEN /\ Raise("ValueError")
                /\ UNCHANGED <<pktlens, networkThroughputs>>
           ELSE /\ pktlens' = [k \in DOMAIN z |-> z[k][1]]
                /\ networkThroughputs' = [k \in DOMAIN z |-> z[k][2]]
                /\ pc' = "sort2"
                /\ UNCHANGED error
    /\ UNCHANGED <<script, stdout, chart, precVars, probabilities, existsInput,
                   fLines, memoryBandwidths, accVars, quantVars>>

\* throughput lines 79-81
ThroughputSort2 ==
    /\ script = "throughput" /\ pc = "sort2"
    /\ LET z == Sorted(Zip(pktlens, memoryBandwidths))
       IN  IF z = <<>>
           THEN /\ Raise("ValueError")
                /\ UNCHANGED <<pktlens, memoryBandwidths>>
           ELSE /\ pktlens' = [k \in DOMAIN z |-> z[k][1]]
                /\ memoryBandwidths' = [k \in DOMAIN z |-> z[k][2]]
                /\ pc' = "convert"
                /\ UNCHANGED error
    /\ UNCHANGED <<script, stdout, chart, precVars, probabilities, existsInput,
                   fLines, networkThroughputs, accVars, quantVars>>

\* throughput lines 84-85
ThroughputConvert ==
    /\ script = "throughput" /\ pc = "convert"
    /\ networkThroughputs' = ToGbps(networkThroughputs)
    /\ memoryBandwidths' = ToGbps(memoryBandwidths)
    /\ pc' = "plot"
    /\ UNCHANGED <<script, outVars, precVars, probabilities, existsInput,
                   fLines, pktlens, accVars, quantVars>>

\* throughput lines 88-105
ThroughputPlot ==
    /\ script = "throughput" /\ pc = "plot"
    /\ chart' = [x |-> pktlens, y0 |-> networkThroughputs, y1 |-> memoryBandwidths]
    /\ pc' = "done"
    /\ UNCHANGED <<script, error, stdout, precVars, probabilities, sortVars,
                   accVars, quantVars>>

\* required memory bandwidth lines 57-65
BandwidthRead ==
    /\ script = "membandwidth" /\ pc = "read"
    /\ \E lines \in SeqsUpTo(BandwidthLines, MaxLines) :
         /\ fLines' = lines
         /\ pktlens' = [k \in DOMAIN lines |-> lines[k][1]]
         /\ memoryBandwidths' = [k \in DOMAIN lines |-> FromDec(lines[k][2], -9)]
    /\ pc' = "sort"
    /\ UNCHANGED <<script, outVars, precVars, probabilities, existsInput,
                   networkThroughputs, accVars, quantVars>>

\* required memory bandwidth lines 68-69
BandwidthSort ==
    /\ script = "membandwidth" /\ pc = "sort"
    /\ LET z == Sorted(Zip(pktlens, memoryBandwidths))
       IN  IF z = <<>>
           THEN /\ Raise("ValueError")
                /\ UNCHANGED <<pktlens, memoryBandwidths>>
           ELSE /\ pktlens' = [k \in DOMAIN z |-> z[k][1]]
                /\ memoryBandwidths' = [k \in DOMAIN z |-> z[k][2]]
                /\ pc' = "convert"
                /\ UNCHANGED error
    /\ UNCHANGED <<script, stdout, chart, precVars, probabilities, existsInput,
                   fLines, networkThroughputs, accVars, quantVars>>

\* required memory bandwidth line 72
BandwidthConvert ==
    /\ script = "membandwidth" /\ pc = "convert"
    /\ memoryBandwidths' = ToGbps(memoryBandwidths)
    /\ pc' = "plot"
    /\ UNCHANGED <<script, outVars, precVars, probabilities, existsInput,
                   fLines, pktlens, networkThroughputs, accVars, quantVars>>

\* required memory bandwidth lines 75-89
BandwidthPlot ==
    /\ script = "membandwidth" /\ pc = "plot"
    /\ chart' = [x |-> pktlens, y |-> memoryBandwidths]
    /\ pc' = "done"
    /\ UNCHANGED <<script, error, stdout, precVars, probabilities, sortVars,
                   accVars, quantVars>>

(***************************************************************************)
(* plot_accuracy_random/plot.py                                            *)
(***************************************************************************)
\* the (datarateMean, file) tuples of the entries that match the pattern
RECURSIVE Matching(_)
Matching(listing) ==
    IF listing = <<>> THEN <<>>
    ELSE IF Head(listing) = 0 THEN Matching(Tail(listing))
    ELSE <<<<FDiv(FromDec(Head(listing), -9), F1e9), Head(listing)>>>>
         \o Matching(Tail(listing))

RECURSIVE InsertByRate(_, _)
InsertByRate(x, q) ==
    IF q = <<>> THEN <<x>>
    ELSE IF FLt(x[1], Head(q)[1]) THEN <<x>> \o q
    ELSE <<Head(q)>> \o InsertByRate(x, Tail(q))

\* histfiles.sort(key=lambda x: x[0]), a stable sort
RECURSIVE SortByRate(_)
SortByRate(q) ==
    IF q = <<>> THEN q
    ELSE InsertByRate(q[Len(q)], SortByRate(SubSeq(q, 1, Len(q) - 1)))

\* sum(occurrences)
RECURSIVE FSum(_)
FSum(q) == IF q = <<>> THEN FZero ELSE FAdd(FSum(SubSeq(q, 1, Len(q) - 1)), q[Len(q)])

\* lines 50-78
ListDir ==
    /\ script = "accuracy" /\ pc = "main"
    /\ LET found == Matching(dirListing)
       IN  IF Len(found) = 0
           THEN /\ stdout' = Append(stdout, NoData)
                /\ pc' = "return"
                /\ UNCHANGED histfiles
           ELSE /\ histfiles' = SortByRate(found)
                /\ pc' = "histogram"
                /\ UNCHANGED stdout
    /\ UNCHANGED <<script, error, chart, precVars, probabilities, sortVars,
                   dirListing, i, latencies, occurrences, latency_min,
                   latency_max, quantVars>>

\* lines 88-100 for a file of the given lines: the latencies, the
\* occurrences, their sum and the probabilities (none if the sum is zero)
ParseHistogram(lines) ==
    LET lat == [k \in DOMAIN lines |-> FromDec(lines[k][1], 1)]
        occ == [k \in DOMAIN lines |-> IntToF(lines[k][2])]
        tot == FSum(occ)
    IN  [lat |-> lat, occ |-> occ, tot |-> tot,
         pro |-> IF tot = FZero THEN <<>>
                 ELSE [k \in DOMAIN occ |-> FDiv(FMul(F100, occ[k]), tot)]]

\* lines 99-124 for a file whose lines parse to h
PlotParsed(h) ==
    /\ latencies' = h.lat
    /\ occurrences' = h.occ
    /\ IF h.occ # <<>> /\ h.tot = FZero
       THEN /\ Raise("ZeroDivisionError")
            /\ UNCHANGED <<probabilities, latency_min, latency_max, chart, i>>
       ELSE /\ probabilities' = h.pro
            /\ IF h.lat = <<>>
               THEN /\ Raise("ValueError")
                    /\ UNCHANGED <<latency_min, latency_max, chart, i>>
               ELSE /\ latency_min' =
                         IF i = 0 \/ FLt(FMinSeq(h.lat), latency_min)
                         THEN FMinSeq(h.lat) ELSE latency_min
                    /\ latency_max' =
                         IF i = 0 \/ FLt(latency_max, FMaxSeq(h.lat))
                         THEN FMaxSeq(h.lat) ELSE latency_max
                    /\ IF Len(histfiles) = 1
                       THEN /\ Raise("TypeError")
                            /\ UNCHANGED <<chart, i>>
                       ELSE /\ chart' = [x |-> h.lat, y |-> h.pro,
                                         subplot |-> i]
                            /\ i' = i + 1
                            /\ pc' = IF i + 1 < Len(histfiles)
                                     THEN "histogram" ELSE "configure"
                            /\ UNCHANGED error

\* lines 81-124, one pass of the loop over histfiles.  plt.subplots(nrows=1,
\* ncols=1) returns one Axes, not an array of them, so axs[i] raises.
PlotHistogram ==
    /\ script = "accuracy" /\ pc = "histogram"
    /\ \E lines \in SeqsUpTo(HistLines, MaxBins) :
         /\ fLines' = lines
         /\ PlotParsed(ParseHistogram(lines))
    /\ UNCHANGED <<script, stdout, precVars, existsInput, pktlens,
                   networkThroughputs, memoryBandwidths, dirListing, histfiles,
                   quantVars>>

\* lines 127-145
Configure ==
    /\ script = "accuracy" /\ pc = "configure"
    /\ pc' = "done"
    /\ UNCHANGED <<script, outVars, precVars, probabilities, sortVars, accVars,
                   quantVars>>

Next ==
    \/ CheckFiles
    \/ ReadExpected
    \/ ReadMeasured
    \/ AssertLen
    \/ ComputeErrors
    \/ ComputeRange
    \/ BinStep
    \/ BinExit
    \/ AssertSum
    \/ Normalize
    \/ Plot
    \/ SortCheckFile
    \/ ThroughputRead
    \/ ThroughputSort1
    \/ ThroughputSort2
    \/ ThroughputConvert
    \/ ThroughputPlot
    \/ BandwidthRead
    \/ BandwidthSort
    \/ BandwidthConvert
    \/ BandwidthPlot
    \/ ListDir
    \/ PlotHistogram
    \/ Configure

Spec == Init /\ [][Next]_vars

(***************************************************************************)
(* The quantizer of plot_precision/plot.py applied to one raw timestamp,   *)
(* and then to its own result                                              *)
(***************************************************************************)
InitQ ==
    /\ Blank
    /\ script = "quantizer"
    /\ timestamp \in 0..MaxRaw
    /\ existsExpected = FALSE
    /\ existsMeasured = FALSE
    /\ existsInput = FALSE
    /\ dirListing = <<>>

QuantizeOnce ==
    /\ script = "quantizer" /\ pc = "main"
    /\ once' = Quantize(timestamp)
    /\ pc' = "once"
    /\ UNCHANGED <<script, outVars, precVars, probabilities, sortVars, accVars,
                   timestamp, twice>>

QuantizeTwice ==
    /\ script = "quantizer" /\ pc = "once"
    /\ twice' = QuantizeF(once)
    /\ pc' = "twice"
    /\ UNCHANGED <<script, outVars, precVars, probabilities, sortVars, accVars,
                   timestamp, once>>

NextQ == QuantizeOnce \/ QuantizeTwice

SpecQ == InitQ /\ [][NextQ]_vars

(***************************************************************************)
(* The properties of the scripts                                           *)
(***************************************************************************)
\* the binning loop of plot_precision has ended
Binned == script = "precision" /\ pc = "assertSum"

\* the bins whose interval [edge, edge + T) holds the value x
BinsOf(x) ==
    {k \in DOMAIN errors :
        FLe(errors[k], x) /\ FLt(x, FAdd(errors[k], T_CLK_NIC))}

\* C1: when the binning loop of the precision script has ended, the counts
\* sum to the number of samples, so the check of line 100 passes
C1_CountSumHolds == Binned => SumSeq(occurences) = Len(tErrorList)

\* C2: when the binning loop has ended, every error value lies in exactly
\* one of the half-open bins [edge, edge + T) that were produced
C2_ExactlyOneBin ==
    Binned => \A k \in DOMAIN tErrorList : Cardinality(BinsOf(tErrorList[k])) = 1

\* the run on expected = [0.0, 0.0, 0.0] and measured = [3, 4, 10]
Scenario ==
    /\ script = "precision"
    /\ fExpected = <<0, 0, 0>>
    /\ fMeasured = <<3, 4, 10>>

\* C3: in that run the quantized values and the errors are [3.2, 3.2, 9.6],
\* the bins are 3.2, 6.4 and 9.6 with counts 2, 0 and 1, and the run does
\* not fail
C3_ThreeBins ==
    Scenario =>
        /\ pc # "fail"
        /\ Binned =>
             /\ tMeasuredList = <<FromDec(32, 1), FromDec(32, 1), FromDec(96, 1)>>
             /\ tErrorList = tMeasuredList
             /\ errors = <<FromDec(32, 1), FromDec(64, 1), FromDec(96, 1)>>
             /\ occurences = <<2, 0, 1>>

\* C4: when every error is zero, the binner produces the single bin at edge
\* 0, and it holds all samples
C4_SingleBinAtZero ==
    (Binned /\ \A k \in DOMAIN tErrorList : tErrorList[k] = FZero) =>
        /\ errors = <<FZero>>
        /\ occurences = <<Len(tErrorList)>>

\* C5: a run of the precision script that has read files of different
\* lengths and gone past the length check has failed there, with no error
\* value, bin, probability or chart
C5_LengthMismatchFatal ==
    (/\ script = "precision"
     /\ pc \notin {"main", "return", "readExpected", "readMeasured", "assertLen"}
     /\ Len(fExpected) # Len(fMeasured)) =>
        /\ pc = "fail"
        /\ error = "AssertionError"
        /\ tErrorList = <<>>
        /\ errors = <<>>
        /\ occurences = <<>>
        /\ probabilities = <<>>
        /\ chart = <<>>

\* a run that failed the length check on 3 expected and 2 measured entries
C5_Witness ==
    /\ script = "precision"
    /\ pc = "fail"
    /\ error = "AssertionError"
    /\ Len(fExpected) = 3
    /\ Len(fMeasured) = 2

\* C6: with one of the two files absent, a run of the precision script that
\* has left its first statement has printed the diagnostic and returned:
\* nothing is read, computed or plotted, and there is no failure
C6_MissingFileCleanExit ==
    (/\ script = "precision"
     /\ pc # "main"
     /\ (~existsExpected \/ ~existsMeasured)) =>
        /\ pc = "return"
        /\ stdout = <<NoData>>
        /\ error = ""
        /\ fExpected = <<>>
        /\ fMeasured = <<>>
        /\ tErrorList = <<>>
        /\ errors = <<>>
        /\ occurences = <<>>
        /\ probabilities = <<>>
        /\ chart = <<>>

\* a run that returned with only the measured file absent
C6_Witness ==
    /\ script = "precision"
    /\ pc = "return"
    /\ existsExpected
    /\ ~existsMeasured
    /\ stdout = <<NoData>>

\* C7: the quantizer applied to a quantized value returns that value
C7_QuantizeIdempotent == pc = "twice" => twice = once

\* the quantizer was applied twice to 10, a value that is not a multiple of T
C7_Witness ==
    /\ script = "quantizer"
    /\ pc = "twice"
    /\ timestamp = 10
    /\ once = FromDec(96, 1)

\* C8: when the binning loop has ended, the edges are start, start + T, ...,
\* each a multiple of T, in ascending order, and there are
\* ceil((end - start)/T) of them
C8_EdgesAndBinCount ==
    Binned =>
        /\ \A k \in DOMAIN errors :
             /\ errors[k] = FRound1(FAdd(start, FMul(IntToF(k - 1), T_CLK_NIC)))
             /\ \E n \in -MaxRaw..MaxRaw :
                  errors[k] = FRound1(FMul(IntToF(n), T_CLK_NIC))
             /\ k > 1 => FLt(errors[k - 1], errors[k])
        /\ Len(errors) = FCeil(FDiv(FSub(end, start), T_CLK_NIC))

\* the counts of a histogram file
Counts(lines) == [k \in DOMAIN lines |-> lines[k][2]]

\* p holds one percentage for each count, and the percentages
\* 100*count/total sum to 100: exactly as rationals, and within the relative
\* tolerance 1e-6 as the floats of p
SumTo100(counts, total, p) ==
    /\ Len(p) = Len(counts)
    /\ total > 0
    /\ 100 * SumSeq(counts) = 100 * total
    /\ FLe(FSub(FSum(p), F100), FromDec(1, 4))
    /\ FLe(FSub(F100, FSum(p)), FromDec(1, 4))

\* the normalizer of plot_precision gives percentages that sum to 100, and
\* leaves the edges and the counts as they are
NormalizesPrecision ==
    (script = "precision" /\ pc = "normalize") =>
        /\ SumTo100(occurences, Len(tErrorList), probabilities')
        /\ errors' = errors
        /\ occurences' = occurences

\* the normalizer of plot_accuracy_random gives percentages that sum to 100,
\* for the latencies of the file in the order of the file
NormalizesAccuracy ==
    /\ SumTo100(Counts(fLines'), SumSeq(Counts(fLines')), probabilities')
    /\ latencies' = [k \in DOMAIN fLines' |-> FromDec(fLines'[k][1], 1)]

\* C9 as stated: every histogram that reaches a normalizer gets percentages
\* that sum to 100, with its edges and their order unchanged
C9_EveryHistogram ==
    [][/\ NormalizesPrecision
       /\ (script = "accuracy" /\ pc = "histogram") => NormalizesAccuracy]_vars

\* C9: every histogram with a positive total count that reaches a normalizer
\* gets percentages that sum to 100, with its edges and their order unchanged
C9_PositiveTotal ==
    [][/\ NormalizesPrecision
       /\ (/\ script = "accuracy" /\ pc = "histogram"
           /\ SumSeq(Counts(fLines')) > 0) => NormalizesAccuracy]_vars

\* the normalizer of plot_precision has acted on the bins with counts 2 and 1
C9_Witness ==
    /\ script = "precision"
    /\ pc = "plot"
    /\ occurences = <<2, 1>>
    /\ Len(probabilities) = 2

\* C10: the chart of the throughput script pairs every packet length with a
\* network throughput and with a memory bandwidth of one input line
C10_PairsFromOneLine ==
    (script = "throughput" /\ pc = "done") =>
        \A k \in DOMAIN chart.x :
            /\ \E l \in DOMAIN fLines :
                 /\ fLines[l][1] = chart.x[k]
                 /\ FDiv(FromDec(fLines[l][2], -9), F1e9) = chart.y0[k]
            /\ \E l \in DOMAIN fLines :
                 /\ fLines[l][1] = chart.x[k]
                 /\ FDiv(FromDec(fLines[l][3], -9), F1e9) = chart.y1[k]

====
